---- MODULE Spec2Model ----
(***************************************************************************)
(* Model of the two route handlers of autogenstudio/web/routes:            *)
(*   invoke.py  POST /  invoke(request)                                    *)
(*   models.py  GET  /  list_models()                                      *)
(* Every invoke request is a coroutine with one suspension point, the      *)
(* await of team_manager.run (invoke.py line 21).  The team manager is an  *)
(* opaque collaborator: its run completes with some result or raises some  *)
(* error, or never completes.                                              *)
(***************************************************************************)
EXTENDS Naturals, Sequences, FiniteSets

\* ------------------------------------------------------------------ bounds
MaxReq == 2
MaxListCalls == 2

Reqs == 1..MaxReq

\* ------------------------------------------------------------------ inputs
\* InvokeTaskRequest.task and InvokeTaskRequest.team_config
Tasks == {"t1", "t2"}
Configs == {"c1"}

\* Python's None
None == "None"

\* What team_manager.run may return (None included).
Results == {"r1", None}

\* Response(message="Task successfully completed", ...)
SuccessText == "Task successfully completed"

\* Classes of the errors team_manager.run may raise.  ValueError and
\* RuntimeError derive from Exception; asyncio.CancelledError derives from
\* BaseException only.
ExceptionKinds == {"ValueError", "RuntimeError"}
Kinds == ExceptionKinds \cup {"CancelledError"}

\* The texts of the errors; an error may carry the success text itself.
ErrorTexts == {"boom", SuccessText}

Pending == [type |-> "pending"]
RunResult(v) == [type |-> "result", value |-> v]
RunError(k, t) == [type |-> "error", kind |-> k, text |-> t]

\* Every way the awaited run can complete.
Outcomes ==
    {RunResult(v) : v \in Results} \cup
    {RunError(k, t) : k \in Kinds, t \in ErrorTexts}

\* One entry of a _MODEL_INFO dict: a model id and its info.
Entry(k, i) == [key |-> k, info |-> i]

\* The _MODEL_INFO dicts of a deployment, as ordered dicts (a sequence of
\* entries with distinct keys, in insertion order).  Their contents live in
\* autogen_ext; two deployments stand for them.
ModelInfoTables ==
    { [anthropic |-> <<Entry("claude-a", "vision"), Entry("claude-b", "text")>>,
       ollama |-> <<>>,
       openai |-> <<Entry("gpt-b", "text"), Entry("gpt-a", "vision")>>],
      [anthropic |-> <<Entry("claude-b", "text")>>,
       ollama |-> <<Entry("llama", "text"), Entry("qwen", "text")>>,
       openai |-> <<Entry("gpt-a", "vision")>>] }

VARIABLES
    tables,     \* the three imported _MODEL_INFO dicts
    pc,         \* pc[r]: where request r's invoke coroutine is
    request,    \* request[r]: the InvokeTaskRequest of r
    response,   \* response[r]: the local variable response of r's handler
    outcome,    \* outcome[r]: how r's awaited team_manager.run completed
    runCalls,   \* runCalls[r]: the calls of team_manager.run made for r
    sent,       \* sent[r]: the HTTP responses returned for r
    mlLog       \* the HTTP responses of the list_models calls, in order

vars == <<tables, pc, request, response, outcome, runCalls, sent, mlLog>>

invokeVars == <<pc, request, response, outcome, runCalls, sent>>

\* ------------------------------------------------------------- invoke.py

NoRequest == [task |-> None, team_config |-> None]
Unbound == [message |-> None, status |-> FALSE, data |-> None]

\* response = Response(message="Task successfully completed", status=True, data=None)
NewResponse == [message |-> SuccessText, status |-> TRUE, data |-> None]

\* team_manager.run(task=request.task, team_config=request.team_config)
RunCall(req) == [task |-> req.task, team_config |-> req.team_config]

\* Mutant of OnSuccess: the result is dropped.
OnSuccessDropsData(resp, result) == resp

\* response.data = result_message
OnSuccess(resp, result) == [resp EXCEPT !.data = result]

\* Mutant of Catches: except ValueError as e
CatchesValueErrorOnly(e) == e.kind = "ValueError"

\* except Exception as e
Catches(e) == e.kind \in ExceptionKinds

\* str(e): the text of the error, without its class
Str(e) == e.text

\* Mutant of OnException: the message is left as it was.
OnExceptionKeepsMessage(resp, e) == [resp EXCEPT !.status = FALSE]

\* response.message = str(e); response.status = False
OnException(resp, e) == [resp EXCEPT !.message = Str(e), !.status = FALSE]

\* A handler that returns normally is answered with status code 200.
Http200(body) == [code |-> 200, body |-> body]

\* invoke, from its entry to the await: the envelope is built and
\* team_manager.run is called with the request's task and team_config.
\* Requests are numbered in the order they arrive.
InvokeStart(r, task, cfg) ==
    /\ pc[r] = "idle"
    /\ \A q \in Reqs : q < r => pc[q] # "idle"
    /\ LET req == [task |-> task, team_config |-> cfg] IN
        /\ request' = [request EXCEPT ![r] = req]
        /\ runCalls' = [runCalls EXCEPT ![r] = Append(@, RunCall(req))]
    /\ response' = [response EXCEPT ![r] = NewResponse]
    /\ pc' = [pc EXCEPT ![r] = "awaiting"]
    /\ UNCHANGED <<tables, outcome, sent, mlLog>>

\* The awaited team_manager.run of request r completes with outcome o.
RunCompletes(r, o) ==
    /\ pc[r] = "awaiting"
    /\ outcome[r] = Pending
    /\ outcome' = [outcome EXCEPT ![r] = o]
    /\ UNCHANGED <<tables, pc, request, response, runCalls, sent, mlLog>>

\* Mutant of InvokeResume: a caught failure calls team_manager.run once more.
InvokeResumeRetry(r) ==
    /\ pc[r] = "awaiting"
    /\ outcome[r] # Pending
    /\ IF outcome[r].type = "result"
       THEN LET resp == OnSuccess(response[r], outcome[r].value) IN
            /\ response' = [response EXCEPT ![r] = resp]
            /\ sent' = [sent EXCEPT ![r] = Append(@, Http200(resp))]
            /\ pc' = [pc EXCEPT ![r] = "returned"]
            /\ UNCHANGED <<outcome, runCalls>>
       ELSE IF Catches(outcome[r]) /\ Len(runCalls[r]) < 2
       THEN /\ runCalls' = [runCalls EXCEPT ![r] = Append(@, RunCall(request[r]))]
            /\ outcome' = [outcome EXCEPT ![r] = Pending]
            /\ UNCHANGED <<response, sent, pc>>
       ELSE IF Catches(outcome[r])
       THEN LET resp == OnException(response[r], outcome[r]) IN
            /\ response' = [response EXCEPT ![r] = resp]
            /\ sent' = [sent EXCEPT ![r] = Append(@, Http200(resp))]
            /\ pc' = [pc EXCEPT ![r] = "returned"]
            /\ UNCHANGED <<outcome, runCalls>>
       ELSE /\ pc' = [pc EXCEPT ![r] = "raised"]
            /\ UNCHANGED <<response, sent, outcome, runCalls>>
    /\ UNCHANGED <<tables, request, mlLog>>

\* Mutant of InvokeResume: one envelope shared by the requests in flight, so
\* a failure marks the envelope of every suspended request.
InvokeResumeShared(r) ==
    /\ pc[r] = "awaiting"
    /\ outcome[r] # Pending
    /\ IF outcome[r].type = "result"
       THEN LET resp == OnSuccess(response[r], outcome[r].value) IN
            /\ response' = [response EXCEPT ![r] = resp]
            /\ sent' = [sent EXCEPT ![r] = Append(@, Http200(resp))]
            /\ pc' = [pc EXCEPT ![r] = "returned"]
       ELSE IF Catches(outcome[r])
       THEN LET resp == OnException(response[r], outcome[r]) IN
            /\ response' = [q \in Reqs |->
                    IF pc[q] = "awaiting"
                    THEN OnException(response[q], outcome[r])
                    ELSE response[q]]
            /\ sent' = [sent EXCEPT ![r] = Append(@, Http200(resp))]
            /\ pc' = [pc EXCEPT ![r] = "returned"]
       ELSE /\ pc' = [pc EXCEPT ![r] = "raised"]
            /\ UNCHANGED <<response, sent>>
    /\ UNCHANGED <<tables, request, outcome, runCalls, mlLog>>

\* Mutant of InvokeResume: a run that has not completed is given up and
\* answered with a failure envelope.
InvokeResumeTimeout(r) ==
    /\ pc[r] = "awaiting"
    /\ IF outcome[r] = Pending
       THEN LET resp == [response[r] EXCEPT !.message = "timeout", !.status = FALSE] IN
            /\ response' = [response EXCEPT ![r] = resp]
            /\ sent' = [sent EXCEPT ![r] = Append(@, Http200(resp))]
            /\ pc' = [pc EXCEPT ![r] = "returned"]
       ELSE IF outcome[r].type = "result"
       THEN LET resp == OnSuccess(response[r], outcome[r].value) IN
            /\ response' = [response EXCEPT ![r] = resp]
            /\ sent' = [sent EXCEPT ![r] = Append(@, Http200(resp))]
            /\ pc' = [pc EXCEPT ![r] = "returned"]
       ELSE IF Catches(outcome[r])
       THEN LET resp == OnException(response[r], outcome[r]) IN
            /\ response' = [response EXCEPT ![r] = resp]
            /\ sent' = [sent EXCEPT ![r] = Append(@, Http200(resp))]
            /\ pc' = [pc EXCEPT ![r] = "returned"]
       ELSE /\ pc' = [pc EXCEPT ![r] = "raised"]
            /\ UNCHANGED <<response, sent>>
    /\ UNCHANGED <<tables, request, outcome, runCalls, mlLog>>

\* invoke, from the await to its end.
InvokeResume(r) ==
    /\ pc[r] = "awaiting"
    /\ outcome[r] # Pending
    /\ IF outcome[r].type = "result"
       THEN LET resp == OnSuccess(response[r], outcome[r].value) IN
            /\ response' = [response EXCEPT ![r] = resp]
            /\ sent' = [sent EXCEPT ![r] = Append(@, Http200(resp))]
            /\ pc' = [pc EXCEPT ![r] = "returned"]
       ELSE IF Catches(outcome[r])
       THEN LET resp == OnException(response[r], outcome[r]) IN
            /\ response' = [response EXCEPT ![r] = resp]
            /\ sent' = [sent EXCEPT ![r] = Append(@, Http200(resp))]
            /\ pc' = [pc EXCEPT ![r] = "returned"]
       ELSE /\ pc' = [pc EXCEPT ![r] = "raised"]
            /\ UNCHANGED <<response, sent>>
    /\ UNCHANGED <<tables, request, outcome, runCalls, mlLog>>

\* ------------------------------------------------------------- models.py

\* Mutant of Keys: the keys in reverse order.
KeysReversed(d) == [i \in 1..Len(d) |-> d[Len(d) + 1 - i].key]

\* list(d.keys()): the keys of the dict, in its order
Keys(d) == [i \in 1..Len(d) |-> d[i].key]

\* Mutant of ListCatalog: azureOpenAI is read from another table.
ListCatalogWrongAzure(t) ==
    [anthropic |-> Keys(t.anthropic),
     ollama |-> Keys(t.ollama),
     openAI |-> Keys(t.openai),
     azureOpenAI |-> Keys(t.anthropic)]

\* the dict built by list_models
ListCatalog(t) ==
    [anthropic |-> Keys(t.anthropic),
     ollama |-> Keys(t.ollama),
     openAI |-> Keys(t.openai),
     azureOpenAI |-> Keys(t.openai)]

\* Mutant of ListModels: the call fails once the run of an invoke request
\* has failed.
ListModelsFailsAfterFailure ==
    /\ Len(mlLog) < MaxListCalls
    /\ mlLog' = Append(mlLog,
                       IF \E r \in Reqs : outcome[r].type = "error"
                       THEN [code |-> 500, body |-> None]
                       ELSE Http200(ListCatalog(tables)))
    /\ UNCHANGED <<tables, pc, request, response, outcome, runCalls, sent>>

\* Mutant of ListModels: the call also runs the team manager.
ListModelsCallsRun ==
    /\ Len(mlLog) < MaxListCalls
    /\ mlLog' = Append(mlLog, Http200(ListCatalog(tables)))
    /\ runCalls' = [runCalls EXCEPT ![1] = Append(@, RunCall(NoRequest))]
    /\ UNCHANGED <<tables, pc, request, response, outcome, sent>>

\* list_models: builds the catalog and returns it.
ListModels ==
    /\ Len(mlLog) < MaxListCalls
    /\ mlLog' = Append(mlLog, Http200(ListCatalog(tables)))
    /\ UNCHANGED <<tables, pc, request, response, outcome, runCalls, sent>>

\* ------------------------------------------------------------ the system

Init ==
    /\ tables \in ModelInfoTables
    /\ pc = [r \in Reqs |-> "idle"]
    /\ request = [r \in Reqs |-> NoRequest]
    /\ response = [r \in Reqs |-> Unbound]
    /\ outcome = [r \in Reqs |-> Pending]
    /\ runCalls = [r \in Reqs |-> <<>>]
    /\ sent = [r \in Reqs |-> <<>>]
    /\ mlLog = <<>>

Next ==
    \/ \E r \in Reqs, task \in Tasks, cfg \in Configs : InvokeStart(r, task, cfg)
    \/ \E r \in Reqs, o \in Outcomes : RunCompletes(r, o)
    \/ \E r \in Reqs : InvokeResume(r)
    \/ ListModels

Spec == Init /\ [][Next]_vars

\* The event loop resumes a coroutine whose awaited call has completed.
FairSpec == Spec /\ \A r \in Reqs : WF_vars(InvokeResume(r))

\* ------------------------------------------------------------ properties

\* The handler of r has ended, by a return or by an error leaving it.
Ended(r) == pc[r] \in {"returned", "raised"}

CatalogKeys == {"anthropic", "ollama", "openAI", "azureOpenAI"}

\* The keys of ordered dict d, in its order, spelled out.
KeyList(d) == [i \in DOMAIN d |-> d[i].key]

\* C1: a request whose run completed with result r returns the envelope
\* status = true, message = "Task successfully completed", data = r.
C1_SuccessEnvelope ==
    \A r \in Reqs :
        (outcome[r].type = "result" /\ Ended(r)) =>
            /\ pc[r] = "returned"
            /\ sent[r] = << [code |-> 200,
                             body |-> [message |-> SuccessText,
                                       status |-> TRUE,
                                       data |-> outcome[r].value]] >>

C1_Witness ==
    \E r \in Reqs :
        /\ pc[r] = "returned"
        /\ outcome[r].type = "result"
        /\ outcome[r].value # None
        /\ sent[r] # <<>>

C3_NeverPropagates ==
    \A r \in Reqs :
        (outcome[r].type = "error" /\ Ended(r)) =>
            /\ pc[r] = "returned"
            /\ Len(sent[r]) = 1
            /\ sent[r][1].code = 200

\* C3 amended: every failure of the run that is an instance of Exception is
\* caught and turned into a returned envelope with code 200, and two such
\* failures with the same text yield identical envelopes whatever their
\* classes.  An error that is no instance of Exception leaves the handler,
\* which returns no envelope.
C3_ExceptionsCaught ==
    \A r \in Reqs :
      /\ (outcome[r].type = "error" /\ Ended(r)
            /\ outcome[r].kind \notin ExceptionKinds) =>
            /\ pc[r] = "raised"
            /\ sent[r] = <<>>
      /\ (outcome[r].type = "error" /\ Ended(r)
            /\ outcome[r].kind \in ExceptionKinds) =>
            /\ pc[r] = "returned"
            /\ Len(sent[r]) = 1
            /\ sent[r][1].code = 200
            /\ sent[r][1].body.status = FALSE
            /\ \A q \in Reqs :
                (outcome[q].type = "error" /\ Ended(q)
                    /\ outcome[q].kind \in ExceptionKinds
                    /\ outcome[q].text = outcome[r].text) => sent[q] = sent[r]

C3_Witness ==
    \E r, q \in Reqs :
        /\ pc[r] = "returned" /\ pc[q] = "returned"
        /\ outcome[r].type = "error" /\ outcome[q].type = "error"
        /\ outcome[r].kind # outcome[q].kind
        /\ outcome[r].text = outcome[q].text
        /\ sent[r] # <<>> /\ sent[q] # <<>>

\* C4: every list_models response has exactly the keys anthropic, ollama,
\* openAI and azureOpenAI, and its openAI and azureOpenAI lists are the same
\* list, the keys of the OpenAI table in its order.
C4_FourKeysAliased ==
    \A i \in DOMAIN mlLog :
        /\ DOMAIN mlLog[i].body = CatalogKeys
        /\ mlLog[i].body.openAI = mlLog[i].body.azureOpenAI
        /\ mlLog[i].body.openAI = KeyList(tables.openai)
        /\ mlLog[i].body.azureOpenAI = KeyList(tables.openai)

C4_Witness ==
    /\ Len(mlLog) >= 1
    /\ mlLog[1].body.openAI # <<>>
    /\ mlLog[1].body.openAI # mlLog[1].body.anthropic

\* C5: whatever the invoke requests have done (succeeded, failed, still
\* suspended) and however many list_models calls came before, a list_models
\* call can be made and every one made returned a catalog, none an error.
C5_ListModelsNeverFails ==
    /\ \A i \in DOMAIN mlLog :
        /\ mlLog[i].code = 200
        /\ DOMAIN mlLog[i].body = CatalogKeys
    /\ (Len(mlLog) < MaxListCalls => ENABLED ListModels)

C5_Witness ==
    /\ Len(mlLog) >= 2
    /\ mlLog[Len(mlLog)].code = 200
    /\ \E r, q \in Reqs :
        /\ outcome[r].type = "error" /\ Ended(r)
        /\ pc[q] = "awaiting"

\* C6: any two list_models calls return equal catalogs, each provider's
\* list being the keys of that provider's table in table order.
C6_Deterministic ==
    /\ \A i, j \in DOMAIN mlLog : mlLog[i] = mlLog[j]
    /\ \A i \in DOMAIN mlLog :
        /\ mlLog[i].body.anthropic = KeyList(tables.anthropic)
        /\ mlLog[i].body.ollama = KeyList(tables.ollama)
        /\ mlLog[i].body.openAI = KeyList(tables.openai)
        /\ mlLog[i].body.azureOpenAI = KeyList(tables.openai)

C6_Witness ==
    /\ Len(mlLog) >= 2
    /\ Len(mlLog[2].body.openAI) >= 2
    /\ \E r \in Reqs : Ended(r)

\* C7: team_manager.run is called exactly once for each invoke request, with
\* the request's task and team_config, and not again when the call fails.
C7_RunCalledOnce ==
    \A r \in Reqs :
        runCalls[r] =
            IF pc[r] = "idle"
            THEN <<>>
            ELSE << [task |-> request[r].task,
                     team_config |-> request[r].team_config] >>

C7_Witness ==
    \E r \in Reqs :
        /\ pc[r] = "returned"
        /\ outcome[r].type = "error"
        /\ Len(runCalls[r]) = 1
        /\ runCalls[r][1].task \in Tasks

\* C8: a step of an invoke request leaves the lookup tables and the
\* list_models responses as they are, and a list_models call leaves the
\* lookup tables, the calls of team_manager.run and the invoke requests as
\* they are.
C8_HandlersIndependent ==
    [][ /\ tables' = tables
        /\ (invokeVars' # invokeVars => mlLog' = mlLog)
        /\ (mlLog' # mlLog => invokeVars' = invokeVars) ]_vars

C8_Witness ==
    /\ Len(mlLog) >= 1
    /\ \E r, q \in Reqs :
        /\ pc[r] = "returned" /\ outcome[r].type = "result"
        /\ pc[q] = "returned" /\ outcome[q].type = "error"

\* The envelope the handler builds from outcome o alone.
EnvelopeOf(o) ==
    IF o.type = "result"
    THEN [message |-> SuccessText, status |-> TRUE, data |-> o.value]
    ELSE [message |-> o.text, status |-> FALSE, data |-> None]

\* C9: with several requests suspended at once and completing in any order,
\* a step changes the envelope of one request at most, the one that moves,
\* a suspended request's envelope stays as it was built, and a returned
\* envelope is decided by its own request's outcome.
C9_EnvelopesIsolated ==
    /\ [](\A r \in Reqs :
            /\ pc[r] = "awaiting" => response[r] = NewResponse
            /\ pc[r] = "returned" =>
                /\ response[r] = EnvelopeOf(outcome[r])
                /\ sent[r] = << [code |-> 200, body |-> response[r]] >>)
    /\ [][\A r \in Reqs :
            (response'[r] # response[r] \/ sent'[r] # sent[r]) =>
                /\ pc'[r] # pc[r]
                /\ \A q \in Reqs \ {r} :
                    /\ response'[q] = response[q]
                    /\ sent'[q] = sent[q]
                    /\ pc'[q] = pc[q]]_vars

C9_Witness ==
    \E r, q \in Reqs :
        /\ r < q
        /\ pc[r] = "returned" /\ outcome[r].type = "result"
        /\ response[r].status
        /\ pc[q] = "returned" /\ outcome[q].type = "error"
        /\ ~response[q].status

\* C10 as stated: a request whose run has completed and whose handler has
\* ended has returned exactly one envelope.
C10_AlwaysOneEnvelope ==
    \A r \in Reqs : Ended(r) => Len(sent[r]) = 1

\* C10 amended: a request returns at most one envelope and none while its
\* run has not completed, the handler does not end before the run does, and
\* a run that completes with a result or an Exception leads to exactly one
\* returned envelope, while one that completes with an error that is no
\* instance of Exception leads to the handler ending with no envelope.
C10_ReturnsOnceAfterRun ==
    /\ [](\A r \in Reqs :
            /\ Len(sent[r]) <= 1
            /\ (outcome[r] = Pending => sent[r] = <<>> /\ ~Ended(r))
            /\ (pc[r] = "returned" => Len(sent[r]) = 1)
            /\ (pc[r] = "raised" => sent[r] = <<>>))
    /\ \A r \in Reqs :
        (outcome[r].type = "result"
            \/ (outcome[r].type = "error" /\ outcome[r].kind \in ExceptionKinds))
        ~> (pc[r] = "returned" /\ Len(sent[r]) = 1)
    /\ \A r \in Reqs :
        (outcome[r].type = "error" /\ outcome[r].kind \notin ExceptionKinds)
        ~> (pc[r] = "raised" /\ sent[r] = <<>>)

C10_Witness ==
    \E r, q \in Reqs :
        /\ pc[r] = "returned" /\ Len(sent[r]) = 1
        /\ pc[q] = "awaiting" /\ outcome[q] = Pending /\ sent[q] = <<>>

====
